---- MODULE Spec2Model ----
(***************************************************************************)
(* The matching engine of src/trading_engine.py (class TradingEngine) over *)
(* the tables of src/database.py.                                          *)
(*                                                                         *)
(* The store (orders, balances, transactions) is the committed content of  *)
(* the database.  Every request runs in a session of its own (get_db,      *)
(* src/database.py:89-94); sessions of different worker processes share    *)
(* nothing but the store.  SessionLocal is built with autoflush=False, so  *)
(* ORM writes (the new order row, the transaction rows, the changed        *)
(* columns of the makers) reach the database at commit, while the balance  *)
(* upsert is raw SQL that runs at once inside the open transaction: it     *)
(* takes the row lock of the balance row and its effect becomes visible at *)
(* commit.  The store is read committed: a statement sees what was         *)
(* committed when it runs, and no query of the engine locks the order rows *)
(* it loads (there is no with_for_update).                                 *)
(*                                                                         *)
(* balance_update_lock (line 14) is an asyncio.Lock of one process: it is  *)
(* taken and released inside one trade's settlement and excludes nothing   *)
(* in another worker process.                                              *)
(*                                                                         *)
(* Spec and SeqSpec take the settlement of one trade as one step, in which *)
(* every upsert succeeds once its rows are free.  LockSpec takes it        *)
(* statement by statement: the lock, each upsert and its row lock, the     *)
(* errors the database may answer with, the retry and the rollback.        *)
(***************************************************************************)
EXTENDS Integers, Sequences, FiniteSets, TLC

\* ------------------------------------------------------------- bounds
MaxRequests == 3
MaxQty == 2
MaxPrice == 2
\* the requests LockSpec adds to its book
LockRequests == 2

\* ---------------------------------------------------------- the data
Users == {"u1", "u2"}
Sessions == {"s1", "s2"}
\* instruments table: the asset and the quote asset (balances.ticker is a
\* foreign key to instruments.ticker, so RUB is a row of it)
Instruments == {"AAPL", "RUB"}
\* tickers a request may name: an instrument and one that does not exist
RequestTickers == {"AAPL", "NOPE"}
Qtys == 1..MaxQty
Prices == 1..MaxPrice
\* Order.price is nullable; a MARKET order is stored with price NULL
NULL == 0

\* str(user_id) and ticker as sort keys of sorted(), line 208
SessionRank(s) == IF s = "s1" THEN 1 ELSE 2
UserRank(u) == IF u = "u1" THEN 1 ELSE IF u = "u2" THEN 2 ELSE 3
TickerRank(t) == IF t = "AAPL" THEN 1 ELSE 2

\* the balance rows present before the first request
InitBalances == (<<"u1", "RUB">> :> 2) @@ (<<"u1", "AAPL">> :> 1) @@ (<<"u2", "AAPL">> :> 2)

\* the store LockSpec starts from: three users, and a book of three resting
\* orders that earlier requests left (each passed admission on its user's
\* balance)
LockUsers == {"u1", "u2", "u3"}
LockBalances ==
    (<<"u1", "AAPL">> :> 1) @@ (<<"u2", "RUB">> :> 4)
    @@ (<<"u3", "AAPL">> :> 1) @@ (<<"u3", "RUB">> :> 1)
RestingOrder(id, user, direction, price) ==
    [id |-> id, user_id |-> user, ticker |-> "AAPL", direction |-> direction,
     qty |-> 1, price |-> price, order_type |-> "LIMIT", status |-> "NEW",
     filled |-> 0, timestamp |-> id]
LockBook ==
    (1 :> RestingOrder(1, "u3", "SELL", 2)) @@ (2 :> RestingOrder(2, "u1", "SELL", 2))
    @@ (3 :> RestingOrder(3, "u3", "BUY", 1))

\* ids enough for the resting orders and every request
MaxOrderId == MaxRequests + Cardinality(DOMAIN LockBook)

\* the request bodies: LimitOrderBody carries a price, MarketOrderBody none
OrderBodies ==
    [body : {"LimitOrderBody"}, ticker : RequestTickers, direction : {"BUY", "SELL"},
     qty : Qtys, price : Prices]
    \cup
    [body : {"MarketOrderBody"}, ticker : RequestTickers, direction : {"BUY", "SELL"},
     qty : Qtys, price : {NULL}]

VARIABLES
    orders,        \* orders table: id -> row
    balances,      \* balances table: <<user_id, ticker>> -> amount
    transactions,  \* transactions table, in id (autoincrement) order
    tx,            \* per session: the request in flight and its unflushed work
    served         \* how many requests got past their checks (bounds the run)

vars == <<orders, balances, transactions, tx, served>>

\* ------------------------------------------------------------ helpers
EmptyMap == [k \in {} |-> 0]

RECURSIVE SumOver(_, _)
SumOver(f, S) ==
    IF S = {} THEN 0
    ELSE LET k == CHOOSE x \in S : TRUE IN f[k] + SumOver(f, S \ {k})

Min(a, b) == IF a <= b THEN a ELSE b

\* a comparison that takes NULL for the number 0
SqlLeqNullAsZero(a, b) == a <= b

\* SQL comparison: NULL compared with anything is not true
SqlLeq(a, b) == a # NULL /\ b # NULL /\ a <= b

\* >= taken for >
SqlGreater(a, b) == a # NULL /\ b # NULL /\ a > b

SqlGeq(a, b) == a # NULL /\ b # NULL /\ a >= b

IsOpen(status) == status \in {"NEW", "PARTIALLY_EXECUTED"}

Idle ==
    [pc |-> "idle", order |-> <<>>, loaded |-> <<>>, opposite_orders |-> <<>>,
     i |-> 0, remaining_qty |-> 0, added |-> <<>>,
     deltas |-> EmptyMap, target |-> 0, user |-> "none", ret |-> "none",
     todo |-> <<>>, attempt |-> 0, aborted |-> FALSE, balance_update_lock |-> FALSE]

\* ids handed out so far: committed rows and the new orders of open requests
CreatePcs == {"matching", "settling", "upserting", "backoff", "raised"}

UsedIds ==
    DOMAIN orders \cup {tx[s].order.id : s \in {t \in Sessions : tx[t].pc \in CreatePcs}}

\* get_db, src/database.py:89-94: a request gets a session of its own; the
\* sessions are interchangeable, a new request takes the first one not in use
Free(s) ==
    /\ tx[s].pc = "idle"
    /\ \A t \in Sessions : tx[t].pc = "idle" => SessionRank(s) <= SessionRank(t)

\* uuid.uuid4(), line 40: an id no order has
FreshId ==
    CHOOSE n \in 1..MaxOrderId :
        n \notin UsedIds /\ \A m \in 1..MaxOrderId : m \notin UsedIds => n <= m

Init ==
    /\ orders = EmptyMap
    /\ balances = InitBalances
    /\ transactions = <<>>
    /\ tx = [s \in Sessions |-> Idle]
    /\ served = 0

\* ------------------------------------------------- create_order: admission
\* total_cost = qty * (getattr(order_data, 'price', 0) or 1), line 31
TotalCost(d) == d.qty * (IF d.price = NULL THEN 1 ELSE d.price)

\* the funds checks with <= for <
AdmissionOffByOne(user, d) ==
    IF d.ticker \notin Instruments THEN "InstrumentNotFound"
    ELSE IF d.direction = "BUY"
    THEN IF <<user, "RUB">> \notin DOMAIN balances
            \/ balances[<<user, "RUB">>] <= TotalCost(d)
         THEN "InsufficientFunds" ELSE "ok"
    ELSE IF <<user, d.ticker>> \notin DOMAIN balances
            \/ balances[<<user, d.ticker>>] <= d.qty
         THEN "InsufficientAsset" ELSE "ok"

\* lines 24-39: the error create_order raises, or "ok"
Admission(user, d) ==
    IF d.ticker \notin Instruments THEN "InstrumentNotFound"
    ELSE IF d.direction = "BUY"
    THEN IF <<user, "RUB">> \notin DOMAIN balances
            \/ balances[<<user, "RUB">>] < TotalCost(d)
         THEN "InsufficientFunds" ELSE "ok"
    ELSE IF <<user, d.ticker>> \notin DOMAIN balances
            \/ balances[<<user, d.ticker>>] < d.qty
         THEN "InsufficientAsset" ELSE "ok"

\* lines 40-54: the OrderDB object, not yet flushed; timestamp gets its
\* default (datetime.utcnow) when the row is inserted, at commit
NewOrder(id, user, d) ==
    [id |-> id, user_id |-> user, ticker |-> d.ticker, direction |-> d.direction,
     qty |-> d.qty, price |-> d.price,
     order_type |-> IF d.body = "LimitOrderBody" THEN "LIMIT" ELSE "MARKET",
     status |-> "NEW", filled |-> 0, timestamp |-> 0]

OppositeDirection(order) == IF order.direction = "BUY" THEN "SELL" ELSE "BUY"

\* lines 71-75: the filter of the market order's query
MarketFilter(o, order) ==
    /\ o.ticker = order.ticker
    /\ o.direction = OppositeDirection(order)
    /\ IsOpen(o.status)
    /\ o.order_type = "LIMIT"

\* the limit order's query without its price condition
LimitFilterNoPrice(o, order) ==
    /\ o.ticker = order.ticker
    /\ o.direction = OppositeDirection(order)
    /\ IsOpen(o.status)
    /\ o.price # NULL

\* lines 130-134 and 138-142: the filter of the limit order's query
LimitFilter(o, order) ==
    /\ o.ticker = order.ticker
    /\ o.direction = OppositeDirection(order)
    /\ IsOpen(o.status)
    /\ IF order.direction = "BUY" THEN SqlLeq(o.price, order.price)
                                  ELSE SqlGeq(o.price, order.price)

\* order_by(price.asc()) for a BUY, order_by(price.desc()) for a SELL: every
\* sequence of the rows S in that price order; rows of equal price come in
\* whatever order the database returns them
OrderByPrice(S, order) ==
    LET n == Cardinality(S) IN
    {q \in [1..n -> S] :
        /\ \A a, b \in 1..n : a # b => q[a] # q[b]
        /\ \A a, b \in 1..n : a < b =>
              IF order.direction = "BUY" THEN orders[q[a]].price <= orders[q[b]].price
                                         ELSE orders[q[a]].price >= orders[q[b]].price}

\* the ids the query of the incoming order selects
QueryIds(order) ==
    {id \in DOMAIN orders :
        IF order.order_type = "MARKET" THEN MarketFilter(orders[id], order)
                                       ELSE LimitFilter(orders[id], order)}

\* lines 22-39: admission fails, nothing was added to the session
CreateOrderReject(s, user, d) ==
    /\ Free(s)
    /\ Admission(user, d) # "ok"
    /\ tx' = [tx EXCEPT ![s] = [Idle EXCEPT !.pc = "done", !.ret = Admission(user, d)]]
    /\ UNCHANGED <<orders, balances, transactions, served>>

\* lines 22-80 / 22-62,124-145: admission passes, the order object is built
\* and the opposite orders are loaded (the reads of the handler up to the
\* loop, taken together)
CreateOrderAdmit(s, user, d) ==
    /\ Free(s)
    /\ Admission(user, d) = "ok"
    /\ served < MaxRequests
    /\ served' = served + 1
    /\ LET id == FreshId
           order == NewOrder(id, user, d)
       IN \E q \in OrderByPrice(QueryIds(order), order) :
            LET rows == [j \in 1..Cardinality(QueryIds(order)) |-> orders[q[j]]] IN
            tx' = [tx EXCEPT ![s] =
                     [Idle EXCEPT !.pc = "matching", !.order = order,
                                  !.loaded = rows, !.opposite_orders = rows,
                                  !.i = 1, !.remaining_qty = order.qty]]
    /\ UNCHANGED <<orders, balances, transactions>>

\* ------------------------------------------------- create_order: matching
\* update_balance storing the change instead of adding it
UpdateBalanceOverwrite(balance_changes, key, amount_change) ==
    IF key \in DOMAIN balance_changes
    THEN [balance_changes EXCEPT ![key] = amount_change]
    ELSE balance_changes @@ (key :> amount_change)

\* lines 195-199: update_balance on the dictionary balance_changes
UpdateBalance(balance_changes, key, amount_change) ==
    IF key \in DOMAIN balance_changes
    THEN [balance_changes EXCEPT ![key] = @ + amount_change]
    ELSE balance_changes @@ (key :> amount_change)

\* lines 186-205: the changes of one trade, by (user_id, ticker)
BalanceChanges(order1, order2, qty, price) ==
    LET buyer_id == IF order1.direction = "BUY" THEN order1.user_id ELSE order2.user_id
        seller_id == IF order1.direction = "SELL" THEN order1.user_id ELSE order2.user_id
        ticker == order1.ticker
        total_cost == qty * price
        c1 == UpdateBalance(EmptyMap, <<buyer_id, ticker>>, qty)
        c2 == UpdateBalance(c1, <<buyer_id, "RUB">>, -total_cost)
        c3 == UpdateBalance(c2, <<seller_id, ticker>>, -qty)
        c4 == UpdateBalance(c3, <<seller_id, "RUB">>, total_cost)
    IN c4

KeyLess(k1, k2) ==
    \/ UserRank(k1[1]) < UserRank(k2[1])
    \/ UserRank(k1[1]) = UserRank(k2[1]) /\ TickerRank(k1[2]) < TickerRank(k2[2])

\* lines 208-215: the changes sorted by (str(user_id), ticker), the zero
\* changes skipped
SortedChanges(balance_changes) ==
    LET keys == {k \in DOMAIN balance_changes : balance_changes[k] # 0}
        n == Cardinality(keys)
        q == CHOOSE f \in [1..n -> keys] :
                 \A a, b \in 1..n : a < b => KeyLess(f[a], f[b])
    IN [j \in 1..n |-> <<q[j], balance_changes[q[j]]>>]

\* lines 107-110 and 170-173: the status of the resting order after a fill
MakerStatus(opposite_order) ==
    IF opposite_order.filled >= opposite_order.qty THEN "EXECUTED"
    ELSE "PARTIALLY_EXECUTED"

\* the trade priced at the incoming order's price when it has one
ExecutionPriceOfTaker(order, opposite_order) ==
    IF order.price # NULL THEN order.price ELSE opposite_order.price

\* lines 95 and 156: the price of the trade
ExecutionPrice(order, opposite_order) == opposite_order.price

\* lines 96-97 and 162-163
BuyerId(order, opposite_order) ==
    IF order.direction = "BUY" THEN order.user_id ELSE opposite_order.user_id
SellerId(order, opposite_order) ==
    IF order.direction = "SELL" THEN order.user_id ELSE opposite_order.user_id

\* the fill taking all the resting order has left
ExecuteQtyAvailable(remaining_qty, opposite_order) ==
    opposite_order.qty - opposite_order.filled

\* lines 87-88 and 151-152
ExecuteQty(remaining_qty, opposite_order) ==
    Min(remaining_qty, opposite_order.qty - opposite_order.filled)

\* the balance rows another open transaction has upserted and so holds locked
LockedByOthers(s) ==
    UNION {DOMAIN tx[t].deltas : t \in Sessions \ {s}}

RECURSIVE ApplyChanges(_, _)
\* lines 213-239: the upserts of one trade, in the sorted order
ApplyChanges(deltas, sorted_changes) ==
    IF sorted_changes = <<>> THEN deltas
    ELSE ApplyChanges(UpdateBalance(deltas, Head(sorted_changes)[1], Head(sorted_changes)[2]),
                      Tail(sorted_changes))

\* lines 82-113 and 147-175: one pass of the loop body over opposite_orders[i]
\* (the two loops have the same body).  INSERT .. ON CONFLICT DO UPDATE waits
\* while another open transaction holds the balance row, so the pass is over
\* once none of its rows is held by another.  taker and maker in the
\* transaction record are bookkeeping of the model: the ids of the two orders
\* of the trade.
MatchStep(s) ==
    /\ tx[s].pc = "matching"
    /\ tx[s].i <= Len(tx[s].opposite_orders)
    /\ tx[s].remaining_qty > 0
    /\ LET t == tx[s]
           order == t.order
           opposite_order == t.opposite_orders[t.i]
           execute_qty == ExecuteQty(t.remaining_qty, opposite_order)
           execution_price == ExecutionPrice(order, opposite_order)
           transaction ==
               [ticker |-> order.ticker, amount |-> execute_qty, price |-> execution_price,
                buyer_id |-> BuyerId(order, opposite_order),
                seller_id |-> SellerId(order, opposite_order),
                taker |-> order.id, maker |-> opposite_order.id]
           filled_opp == [opposite_order EXCEPT !.filled = @ + execute_qty]
           new_opp == [filled_opp EXCEPT !.status = MakerStatus(filled_opp)]
           sorted_changes ==
               SortedChanges(BalanceChanges(order, opposite_order, execute_qty,
                                            execution_price))
       IN IF execute_qty > 0
          THEN /\ \A j \in 1..Len(sorted_changes) :
                     sorted_changes[j][1] \notin LockedByOthers(s)
               /\ tx' = [tx EXCEPT ![s] =
                    [t EXCEPT !.order.filled = @ + execute_qty,
                              !.opposite_orders[t.i] = new_opp,
                              !.remaining_qty = @ - execute_qty,
                              !.added = Append(@, transaction),
                              !.deltas = ApplyChanges(@, sorted_changes),
                              !.i = @ + 1]]
          ELSE tx' = [tx EXCEPT ![s].i = @ + 1]
    /\ UNCHANGED <<orders, balances, transactions, served>>

\* the market order without its else branch: an unfilled one stays NEW
MarketFinalStatusKeepsNew(order) ==
    IF order.filled >= order.qty THEN "EXECUTED"
    ELSE IF order.filled > 0 THEN "PARTIALLY_EXECUTED"
    ELSE order.status

\* lines 116-122: the status of the market order after the loop
MarketFinalStatus(order) ==
    IF order.filled >= order.qty THEN "EXECUTED"
    ELSE IF order.filled > 0 THEN "PARTIALLY_EXECUTED"
    ELSE "CANCELLED"

\* lines 178-182: the status of the limit order after the loop
LimitFinalStatus(order) ==
    IF order.filled >= order.qty THEN "EXECUTED"
    ELSE IF order.filled > 0 THEN "PARTIALLY_EXECUTED"
    ELSE order.status

FinalStatus(order) ==
    IF order.order_type = "MARKET" THEN MarketFinalStatus(order)
    ELSE LimitFinalStatus(order)

\* the flush of a loaded order: UPDATE orders SET <the attributes whose value
\* differs from the loaded one> WHERE id = ..
FlushRow(row, loaded, current) ==
    [row EXCEPT !.filled = IF current.filled # loaded.filled THEN current.filled ELSE @,
                !.status = IF current.status # loaded.status THEN current.status ELSE @]

\* the upsert as an UPDATE alone: a row that is missing is not inserted
ApplyDeltasExistingRows(bal, deltas) ==
    [k \in DOMAIN bal |-> IF k \in DOMAIN deltas THEN bal[k] + deltas[k] ELSE bal[k]]

\* the amount = balances.amount + :amount of the upserts, on commit
ApplyDeltas(bal, deltas) ==
    [k \in DOMAIN bal \cup DOMAIN deltas |->
        IF k \notin DOMAIN deltas THEN bal[k]
        ELSE IF k \in DOMAIN bal THEN bal[k] + deltas[k]
        ELSE deltas[k]]

LoopDone(t) == t.i > Len(t.opposite_orders) \/ t.remaining_qty <= 0

\* lines 83-84/115-122 or 148-149/177-182, then line 64: the loop ends, the
\* incoming order gets its status, and the session commits
CreateOrderCommit(s) ==
    /\ tx[s].pc = "matching"
    /\ LoopDone(tx[s])
    /\ LET t == tx[s]
           final == [t.order EXCEPT !.status = FinalStatus(t.order),
                                    !.timestamp = Cardinality(DOMAIN orders) + 1]
           touched == {t.loaded[j].id : j \in 1..Len(t.loaded)}
           idx(id) == CHOOSE j \in 1..Len(t.loaded) : t.loaded[j].id = id
       IN /\ orders' = [id \in DOMAIN orders \cup {final.id} |->
                          IF id = final.id THEN final
                          ELSE IF id \in touched
                          THEN FlushRow(orders[id], t.loaded[idx(id)],
                                        t.opposite_orders[idx(id)])
                          ELSE orders[id]]
          /\ transactions' = transactions \o t.added
          /\ balances' = ApplyDeltas(balances, t.deltas)
    /\ tx' = [tx EXCEPT ![s] = Idle]
    /\ UNCHANGED served

\* ------------------------------------------------------- cancel_order
\* the query of cancel_order without its user_id condition
CancelFindsAnyOwner(order_id, user) ==
    /\ order_id \in DOMAIN orders
    /\ IsOpen(orders[order_id].status)

\* lines 253-257: the order the query of cancel_order finds
CancelFinds(order_id, user) ==
    /\ order_id \in DOMAIN orders
    /\ orders[order_id].user_id = user
    /\ IsOpen(orders[order_id].status)

\* lines 253-260: no such open order of the user
CancelOrderMiss(s, order_id, user) ==
    /\ Free(s)
    /\ ~CancelFinds(order_id, user)
    /\ tx' = [tx EXCEPT ![s] = [Idle EXCEPT !.pc = "done", !.ret = "False",
                                          !.target = order_id, !.user = user]]
    /\ UNCHANGED <<orders, balances, transactions, served>>

\* lines 253-262: the order is loaded and its status attribute set
CancelOrderLoad(s, order_id, user) ==
    /\ Free(s)
    /\ CancelFinds(order_id, user)
    /\ served < MaxRequests
    /\ served' = served + 1
    /\ tx' = [tx EXCEPT ![s] = [Idle EXCEPT !.pc = "cancelling", !.target = order_id,
                                          !.user = user]]
    /\ UNCHANGED <<orders, balances, transactions>>

\* a cancel that also takes back what was filled
CancelledAndReset(row) == [row EXCEPT !.status = "CANCELLED", !.filled = 0]

\* line 262: order.status = "CANCELLED"
Cancelled(row) == [row EXCEPT !.status = "CANCELLED"]

\* lines 263-264: commit flushes UPDATE orders SET status = 'CANCELLED', and
\* True is returned
CancelOrderCommit(s) ==
    /\ tx[s].pc = "cancelling"
    /\ orders' = [orders EXCEPT ![tx[s].target] = Cancelled(@)]
    /\ tx' = [tx EXCEPT ![s] = Idle]
    /\ UNCHANGED <<balances, transactions, served>>

\* the request is over: the error or False went back to the caller
Return(s) ==
    /\ tx[s].pc = "done"
    /\ tx' = [tx EXCEPT ![s] = Idle]
    /\ UNCHANGED <<orders, balances, transactions, served>>

\* ------------------------------------- the ledger, statement by statement
\* max_retries: int = 3, line 219
MaxRetries == 3

\* the worker process a session belongs to: balance_update_lock (line 14) is
\* one lock per process
Process(s) == IF s = "s1" THEN "worker1" ELSE "worker2"

\* what self.db.execute (line 233) may raise.  A deadlock (40P01), a
\* serialization failure (40001) and a lost connection come as
\* OperationalError; a statement sent in a transaction that has failed comes
\* as InternalError (25P02)
OperationalErrors ==
    {"deadlock detected", "could not serialize access", "server closed the connection"}
InFailedTransaction == "current transaction is aborted"

\* lines 82-113 and 147-175 up to the call of _update_balances_after_trade,
\* and lines 186-208 of it: the trade is added, the two orders updated, the
\* changes sorted
TradeStep(s) ==
    /\ tx[s].pc = "matching"
    /\ tx[s].i <= Len(tx[s].opposite_orders)
    /\ tx[s].remaining_qty > 0
    /\ LET t == tx[s]
           order == t.order
           opposite_order == t.opposite_orders[t.i]
           execute_qty == ExecuteQty(t.remaining_qty, opposite_order)
           execution_price == ExecutionPrice(order, opposite_order)
           transaction ==
               [ticker |-> order.ticker, amount |-> execute_qty, price |-> execution_price,
                buyer_id |-> BuyerId(order, opposite_order),
                seller_id |-> SellerId(order, opposite_order),
                taker |-> order.id, maker |-> opposite_order.id]
           filled_opp == [opposite_order EXCEPT !.filled = @ + execute_qty]
           new_opp == [filled_opp EXCEPT !.status = MakerStatus(filled_opp)]
       IN IF execute_qty > 0
          THEN tx' = [tx EXCEPT ![s] =
                    [t EXCEPT !.pc = "settling",
                              !.order.filled = @ + execute_qty,
                              !.opposite_orders[t.i] = new_opp,
                              !.remaining_qty = @ - execute_qty,
                              !.added = Append(@, transaction),
                              !.todo = SortedChanges(BalanceChanges(order, opposite_order,
                                                        execute_qty, execution_price))]]
          ELSE tx' = [tx EXCEPT ![s].i = @ + 1]
    /\ UNCHANGED <<orders, balances, transactions, served>>

\* line 211: async with balance_update_lock, entered when no request of the
\* same process is inside
AcquireLock(s) ==
    /\ tx[s].pc = "settling"
    /\ \A t \in Sessions \ {s} :
          Process(t) = Process(s) => ~tx[t].balance_update_lock
    /\ tx' = [tx EXCEPT ![s].pc = "upserting", ![s].balance_update_lock = TRUE,
                         ![s].attempt = 0]
    /\ UNCHANGED <<orders, balances, transactions, served>>

\* a statement that runs although the transaction failed before
CanRunAfterFailure(t) == TRUE

\* a statement runs in a transaction that has not failed
CanRun(t) == ~t.aborted

\* lines 221-239: the upsert of the next change goes through: the row is free,
\* it is written and stays locked by this transaction until it ends
Upsert(s) ==
    /\ tx[s].pc = "upserting"
    /\ tx[s].todo # <<>>
    /\ CanRun(tx[s])
    /\ Head(tx[s].todo)[1] \notin LockedByOthers(s)
    /\ tx' = [tx EXCEPT ![s].deltas = UpdateBalance(@, Head(tx[s].todo)[1], Head(tx[s].todo)[2]),
                         ![s].todo = Tail(@),
                         ![s].attempt = 0]
    /\ UNCHANGED <<orders, balances, transactions, served>>

\* session s waits for a row that session t holds
WaitsFor(s, t) ==
    /\ tx[s].pc = "upserting"
    /\ tx[s].todo # <<>>
    /\ ~tx[s].aborted
    /\ Head(tx[s].todo)[1] \in DOMAIN tx[t].deltas

\* the errors the database may answer the upsert of session s with
Raisable(s) ==
    IF tx[s].aborted THEN {InFailedTransaction}
    ELSE {"could not serialize access", "server closed the connection"}
         \cup {e \in {"deadlock detected"} :
                  \E t \in Sessions \ {s} : WaitsFor(s, t) /\ WaitsFor(t, s)}

\* lines 241-249: the except clause
Handler(e, attempt) ==
    IF e \in OperationalErrors /\ e = "deadlock detected" /\ attempt < MaxRetries - 1
    THEN "retry" ELSE "raise"

\* line 233 raises e.  The database has ended the transaction: what it wrote
\* is undone and its row locks are free.  Lines 241-249 then sleep and try
\* again, or raise; an error that is no OperationalError passes the except
\* clause; raising leaves the async with block, which releases the lock
UpsertRaises(s, e) ==
    /\ tx[s].pc = "upserting"
    /\ tx[s].todo # <<>>
    /\ e \in Raisable(s)
    /\ tx' = [tx EXCEPT ![s].deltas = EmptyMap,
                         ![s].aborted = TRUE,
                         ![s].ret = e,
                         ![s].pc = IF Handler(e, tx[s].attempt) = "retry"
                                   THEN "backoff" ELSE "raised",
                         ![s].balance_update_lock =
                             IF Handler(e, tx[s].attempt) = "retry" THEN @ ELSE FALSE]
    /\ UNCHANGED <<orders, balances, transactions, served>>

\* lines 244-246: the sleep is over, the next attempt begins
Retry(s) ==
    /\ tx[s].pc = "backoff"
    /\ tx' = [tx EXCEPT ![s].pc = "upserting", ![s].attempt = @ + 1]
    /\ UNCHANGED <<orders, balances, transactions, served>>

\* lines 213-217: every change is applied, the async with block is left and
\* the loop over the opposite orders goes on
ReleaseLock(s) ==
    /\ tx[s].pc = "upserting"
    /\ tx[s].todo = <<>>
    /\ tx' = [tx EXCEPT ![s].pc = "matching", ![s].balance_update_lock = FALSE,
                         ![s].i = @ + 1]
    /\ UNCHANGED <<orders, balances, transactions, served>>

\* a close that flushes what the session holds
AfterCloseFlushes(committed, pending) == committed \o pending

\* the rows of a table after db.close(): the open transaction is rolled back,
\* what the session held is gone
AfterClose(committed, pending) == committed

\* the error leaves create_order before its commit (line 64) and get_db closes
\* the session (src/database.py:92-93)
CloseSession(s) ==
    /\ tx[s].pc = "raised"
    /\ transactions' = AfterClose(transactions, tx[s].added)
    /\ tx' = [tx EXCEPT ![s] = [Idle EXCEPT !.pc = "done", !.ret = tx[s].ret]]
    /\ UNCHANGED <<orders, balances, served>>

\* ------------------------------------------------------- get_orderbook
\* lines 269-281: the open LIMIT orders of one side of the ticker
BookOrders(ticker, direction) ==
    {id \in DOMAIN orders :
        /\ orders[id].ticker = ticker
        /\ orders[id].direction = direction
        /\ IsOpen(orders[id].status)
        /\ orders[id].order_type = "LIMIT"}

\* lines 283-302: the dictionary price -> summed qty - filled, the orders
\* with nothing left skipped
Levels(ids) ==
    LET live == {id \in ids : orders[id].qty - orders[id].filled > 0}
        rem == [id \in live |-> orders[id].qty - orders[id].filled]
    IN [p \in {orders[id].price : id \in live} |->
            SumOver(rem, {id \in live : orders[id].price = p})]

\* both sides sorted by ascending price
SortedLevelsAscending(levels, descending, limit) ==
    LET n == Cardinality(DOMAIN levels)
        q == CHOOSE f \in [1..n -> DOMAIN levels] :
                 \A a, b \in 1..n : a < b => f[a] < f[b]
    IN [j \in 1..Min(limit, n) |-> [price |-> q[j], qty |-> levels[q[j]]]]

\* lines 304-309: the levels sorted (descending for bids) and cut at limit
SortedLevels(levels, descending, limit) ==
    LET n == Cardinality(DOMAIN levels)
        q == CHOOSE f \in [1..n -> DOMAIN levels] :
                 \A a, b \in 1..n : a < b =>
                     IF descending THEN f[a] > f[b] ELSE f[a] < f[b]
    IN [j \in 1..Min(limit, n) |-> [price |-> q[j], qty |-> levels[q[j]]]]

\* lines 266-309
GetOrderbook(ticker, limit) ==
    [bid_levels |-> SortedLevels(Levels(BookOrders(ticker, "BUY")), TRUE, limit),
     ask_levels |-> SortedLevels(Levels(BookOrders(ticker, "SELL")), FALSE, limit)]

\* limit: int = 10, line 266
DefaultLimit == 10

\* the limits a caller passes: none, few, and the default
MaxLimit == 2
Limits == 0..MaxLimit \cup {DefaultLimit}

\* ------------------------------------------------------ specifications
OrderIds == 1..MaxRequests

\* a raised error or a returned False is back at the caller before any other
\* request moves on (Return touches nothing another request reads)
NoneDone == \A s \in Sessions : tx[s].pc # "done"

\* requests of several worker processes, interleaved through the store
Next ==
    \E s \in Sessions :
        \/ Return(s)
        \/ NoneDone /\ \E user \in Users, d \in OrderBodies : CreateOrderReject(s, user, d)
        \/ NoneDone /\ \E user \in Users, d \in OrderBodies : CreateOrderAdmit(s, user, d)
        \/ NoneDone /\ \E user \in Users, order_id \in OrderIds : CancelOrderMiss(s, order_id, user)
        \/ NoneDone /\ \E user \in Users, order_id \in OrderIds : CancelOrderLoad(s, order_id, user)
        \/ NoneDone /\ MatchStep(s)
        \/ NoneDone /\ CreateOrderCommit(s)
        \/ NoneDone /\ CancelOrderCommit(s)

Spec == Init /\ [][Next]_vars

\* one request at a time: a request starts when no other is in flight
NoneInFlight == \A s \in Sessions : tx[s].pc = "idle"

SeqNext ==
    \E s \in Sessions :
        \/ Return(s)
        \/ NoneInFlight /\ \E user \in Users, d \in OrderBodies : CreateOrderReject(s, user, d)
        \/ NoneInFlight /\ \E user \in Users, d \in OrderBodies : CreateOrderAdmit(s, user, d)
        \/ NoneInFlight /\ \E user \in Users, order_id \in OrderIds : CancelOrderMiss(s, order_id, user)
        \/ NoneInFlight /\ \E user \in Users, order_id \in OrderIds : CancelOrderLoad(s, order_id, user)
        \/ MatchStep(s)
        \/ CreateOrderCommit(s)
        \/ CancelOrderCommit(s)

SeqSpec == Init /\ [][SeqNext]_vars

\* the book of LockBook is in the store, and LockRequests requests of two
\* worker processes run statement by statement
LockInit ==
    /\ orders = LockBook
    /\ balances = LockBalances
    /\ transactions = <<>>
    /\ tx = [s \in Sessions |-> Idle]
    /\ served = MaxRequests - LockRequests

LockNext ==
    \E s \in Sessions :
        \/ Return(s)
        \/ NoneDone /\ \E user \in LockUsers, d \in OrderBodies : CreateOrderAdmit(s, user, d)
        \/ NoneDone /\ TradeStep(s)
        \/ NoneDone /\ AcquireLock(s)
        \/ NoneDone /\ Upsert(s)
        \/ NoneDone /\ \E e \in OperationalErrors \cup {InFailedTransaction} : UpsertRaises(s, e)
        \/ NoneDone /\ Retry(s)
        \/ NoneDone /\ ReleaseLock(s)
        \/ NoneDone /\ CloseSession(s)
        \/ NoneDone /\ CreateOrderCommit(s)

LockSpec == LockInit /\ [][LockNext]_vars

\* ============================================================ claims
TotalOf(bal, ticker) == SumOver(bal, {k \in DOMAIN bal : k[2] = ticker})

Remaining(o) == o.qty - o.filled

\* C1: every balance row has amount >= 0 in every committed state.
NonNegativeBalances == \A k \in DOMAIN balances : balances[k] >= 0

\* C2: for every ticker, the sum of the balances over all users stays what
\* it was before the first request, self-trades included.
Conservation ==
    \A ticker \in Instruments : TotalOf(balances, ticker) = TotalOf(InitBalances, ticker)

\* a self-trade and a trade between two users are both settled
ConservationWitness ==
    \E a, b \in 1..Len(transactions) :
        /\ transactions[a].buyer_id = transactions[a].seller_id
        /\ transactions[b].buyer_id # transactions[b].seller_id

\* C3: every order has 0 <= filled <= qty, is EXECUTED exactly when
\* filled = qty, PARTIALLY_EXECUTED only with 0 < filled < qty, and NEW only
\* with filled = 0.
OrderConsistency ==
    \A id \in DOMAIN orders :
        LET o == orders[id] IN
        /\ 0 <= o.filled /\ o.filled <= o.qty
        /\ (o.status = "EXECUTED") <=> (o.filled = o.qty)
        /\ o.status = "PARTIALLY_EXECUTED" => (0 < o.filled /\ o.filled < o.qty)
        /\ o.status = "NEW" => o.filled = 0

\* the row of order id as the session s sees it: its own loaded object if it
\* loaded the order, the committed row otherwise
ViewRow(s, id) ==
    LET t == tx[s]
        at == {j \in 1..Len(t.opposite_orders) : t.opposite_orders[j].id = id}
    IN IF at = {} THEN orders[id] ELSE t.opposite_orders[CHOOSE j \in at : TRUE]

\* o would have to be matched before the maker m
HasPriority(o, m) ==
    \/ (m.direction = "SELL" /\ o.price < m.price)
    \/ (m.direction = "BUY" /\ o.price > m.price)
    \/ (o.price = m.price /\ o.timestamp < m.timestamp)

\* C4: when a trade is made, no other open LIMIT order of the maker's side
\* and ticker with remaining quantity has a better price than the maker, nor
\* the same price and an earlier timestamp.
PriceTimePriority ==
    [][\A s \in Sessions :
         Len(tx'[s].added) > Len(tx[s].added) =>
           LET tr == tx'[s].added[Len(tx'[s].added)]
               m == ViewRow(s, tr.maker)
           IN \A id \in DOMAIN orders \ {tr.maker} :
                LET o == ViewRow(s, id) IN
                ~(/\ o.order_type = "LIMIT"
                  /\ o.ticker = tr.ticker
                  /\ o.direction = m.direction
                  /\ IsOpen(o.status)
                  /\ Remaining(o) > 0
                  /\ HasPriority(o, m))]_vars

\* C5: every trade has the price of the resting order it was matched
\* against.
MakerPriceRule ==
    \A i \in 1..Len(transactions) :
        transactions[i].price = orders[transactions[i].maker].price

\* a LIMIT taker traded at a price that is not its own
MakerPriceWitness ==
    \E i \in 1..Len(transactions) :
        LET taker == orders[transactions[i].taker] IN
        taker.order_type = "LIMIT" /\ taker.price # transactions[i].price

\* the two orders of a trade
TakerOf(tr) == orders[tr.taker]
MakerOf(tr) == orders[tr.maker]

LimitRespected ==
    \A i \in 1..Len(transactions) :
        \A o \in {TakerOf(transactions[i]), MakerOf(transactions[i])} :
            o.order_type = "LIMIT" =>
                IF o.direction = "BUY" THEN transactions[i].price <= o.price
                                       ELSE transactions[i].price >= o.price

\* the open LIMIT orders a MARKET order of this ticker and direction faces,
\* whatever their price
OpposingLimitIds(order) ==
    {id \in DOMAIN orders :
        /\ orders[id].order_type = "LIMIT"
        /\ orders[id].ticker = order.ticker
        /\ orders[id].direction # order.direction
        /\ IsOpen(orders[id].status)}

MarketNotStoppedByPrice ==
    \A s \in Sessions :
        /\ (tx[s].pc = "idle" /\ tx'[s].pc = "matching" /\ tx'[s].order.order_type = "MARKET")
              => {tx'[s].loaded[j].id : j \in 1..Len(tx'[s].loaded)}
                     = OpposingLimitIds(tx'[s].order)
        /\ (tx[s].pc = "matching" /\ tx'[s].pc = "idle" /\ tx[s].order.order_type = "MARKET"
                /\ tx[s].order.filled < tx[s].order.qty)
              => \A j \in 1..Len(tx[s].opposite_orders) :
                     Remaining(tx[s].opposite_orders[j]) <= 0

\* C6: no trade of a LIMIT BUY order is above its limit price and none of a
\* LIMIT SELL order below it, as taker or as maker; a MARKET order loads
\* every open opposite LIMIT order whatever its price, and ends short of its
\* quantity only when all it loaded are used up.
LimitPriceRespected == []LimitRespected /\ [][MarketNotStoppedByPrice]_vars

\* an ask rests at 2, a LIMIT BUY at 1 came later and did not trade, and a
\* MARKET BUY traded with the ask
LimitPriceWitness ==
    \E a, b \in DOMAIN orders, i \in 1..Len(transactions) :
        /\ orders[a].direction = "SELL" /\ orders[a].order_type = "LIMIT"
        /\ orders[b].direction = "BUY" /\ orders[b].order_type = "LIMIT"
        /\ orders[b].price < orders[a].price
        /\ orders[b].timestamp > orders[a].timestamp
        /\ orders[b].filled = 0
        /\ transactions[i].maker = a
        /\ TakerOf(transactions[i]).order_type = "MARKET"

\* C7: when create_order commits, the new order is EXECUTED if filled = qty,
\* PARTIALLY_EXECUTED if 0 < filled < qty, and with filled = 0 NEW if LIMIT
\* and CANCELLED if MARKET; an order that filled nothing adds no trade and
\* changes no balance.
FinalStatusRule ==
    [][\A s \in Sessions :
         (tx[s].pc = "matching" /\ tx'[s].pc = "idle") =>
            LET o == orders'[tx[s].order.id] IN
            /\ o.filled = o.qty => o.status = "EXECUTED"
            /\ (0 < o.filled /\ o.filled < o.qty) => o.status = "PARTIALLY_EXECUTED"
            /\ o.filled = 0 =>
                 /\ o.status = IF o.order_type = "LIMIT" THEN "NEW" ELSE "CANCELLED"
                 /\ transactions' = transactions
                 /\ balances' = balances]_vars

\* a MARKET order ended PARTIALLY_EXECUTED and another ended CANCELLED
FinalStatusWitness ==
    \E a, b \in DOMAIN orders :
        /\ orders[a].order_type = "MARKET" /\ orders[a].status = "PARTIALLY_EXECUTED"
        /\ orders[b].order_type = "MARKET" /\ orders[b].status = "CANCELLED"
        /\ orders[b].filled = 0

RECURSIVE SumQty(_)
SumQty(levels) ==
    IF levels = <<>> THEN 0 ELSE Head(levels).qty + SumQty(Tail(levels))

\* what is left of the open LIMIT orders of one side
LimitRemaining(ticker, direction) ==
    LET ids == {id \in DOMAIN orders :
                   /\ orders[id].order_type = "LIMIT"
                   /\ orders[id].ticker = ticker
                   /\ orders[id].direction = direction
                   /\ IsOpen(orders[id].status)
                   /\ Remaining(orders[id]) > 0}
    IN SumOver([id \in ids |-> Remaining(orders[id])], ids)

MarketOrdersOffBook ==
    /\ \A id \in DOMAIN orders :
          orders[id].order_type = "MARKET" => orders[id].status # "NEW"
    /\ \A i \in 1..Len(transactions) : MakerOf(transactions[i]).order_type = "LIMIT"
    /\ \A ticker \in Instruments :
          /\ SumQty(GetOrderbook(ticker, DefaultLimit).bid_levels)
                = LimitRemaining(ticker, "BUY")
          /\ SumQty(GetOrderbook(ticker, DefaultLimit).ask_levels)
                = LimitRemaining(ticker, "SELL")

MarketFilledFrozen ==
    \A id \in DOMAIN orders :
        orders[id].order_type = "MARKET" => orders'[id].filled = orders[id].filled

\* C8: no committed MARKET order is NEW, none is the maker of a trade, none
\* adds to a level of get_orderbook, and the filled of a committed MARKET
\* order never changes.
MarketNeverRests == []MarketOrdersOffBook /\ [][MarketFilledFrozen]_vars

\* a MARKET SELL ended PARTIALLY_EXECUTED and a LIMIT BUY that came later rests
MarketNeverRestsWitness ==
    \E m, o \in DOMAIN orders :
        /\ orders[m].order_type = "MARKET" /\ orders[m].status = "PARTIALLY_EXECUTED"
        /\ orders[m].direction = "SELL"
        /\ orders[o].order_type = "LIMIT" /\ orders[o].direction = "BUY"
        /\ orders[o].ticker = orders[m].ticker
        /\ orders[o].timestamp > orders[m].timestamp
        /\ orders[o].status = "NEW"

StatusStep(from, to) ==
    \/ from = to
    \/ from = "NEW" /\ to \in {"PARTIALLY_EXECUTED", "EXECUTED", "CANCELLED"}
    \/ from = "PARTIALLY_EXECUTED" /\ to \in {"EXECUTED", "CANCELLED"}

\* C9: the status of an order only moves along NEW -> PARTIALLY_EXECUTED ->
\* {EXECUTED, CANCELLED}, and an EXECUTED or CANCELLED order keeps its status
\* and its filled.
StatusMonotonic ==
    [][\A id \in DOMAIN orders :
         /\ StatusStep(orders[id].status, orders'[id].status)
         /\ orders[id].status \in {"EXECUTED", "CANCELLED"} =>
               orders'[id].filled = orders[id].filled]_vars

\* the rejections the claim lists
ShouldReject(user, d) ==
    \/ d.ticker \notin Instruments
    \/ /\ d.direction = "BUY"
       /\ \/ <<user, "RUB">> \notin DOMAIN balances
          \/ balances[<<user, "RUB">>]
                < d.qty * (IF d.body = "LimitOrderBody" THEN d.price ELSE 1)
    \/ /\ d.direction = "SELL"
       /\ \/ <<user, d.ticker>> \notin DOMAIN balances
          \/ balances[<<user, d.ticker>>] < d.qty

AdmissionErrors == {"InstrumentNotFound", "InsufficientFunds", "InsufficientAsset"}

RejectsExactly ==
    \A user \in Users, d \in OrderBodies :
        (Admission(user, d) \in AdmissionErrors) <=> ShouldReject(user, d)

RejectionChangesNothing ==
    \A s \in Sessions :
        (tx[s].pc = "idle" /\ tx'[s].pc = "done" /\ tx'[s].ret \in AdmissionErrors) =>
            /\ orders' = orders
            /\ balances' = balances
            /\ transactions' = transactions
            /\ UsedIds' = UsedIds

\* C10: create_order raises exactly when the ticker is no instrument, a BUY
\* user's RUB row is missing or below qty*price (qty*1 for MARKET), or a SELL
\* user's row of the ticker is missing or below qty; a rejected request leaves
\* orders, trades and balances as they were.
AdmissionRule == []RejectsExactly /\ [][RejectionChangesNothing]_vars

\* a BUY was rejected for funds after trades had moved balances
AdmissionWitness ==
    /\ \E s \in Sessions : tx[s].pc = "done" /\ tx[s].ret = "InsufficientFunds"
    /\ Len(transactions) > 0

\* a cancel_order request of session s begins with this step
CancelBegins(s) == tx[s].pc = "idle" /\ tx'[s].user # "none"

\* the cases in which the claim wants cancel_order to refuse
CancelMustMiss(order_id, user) ==
    \/ order_id \notin DOMAIN orders
    \/ orders[order_id].user_id # user
    \/ orders[order_id].status \in {"EXECUTED", "CANCELLED"}

\* C11: cancel_order called on an order that does not exist, is not the
\* caller's, or is EXECUTED or CANCELLED returns False and changes no order,
\* trade or balance; so does a cancel of an order cancelled before.
GuardedCancel ==
    [][\A s \in Sessions :
         (CancelBegins(s) /\ CancelMustMiss(tx'[s].target, tx'[s].user)) =>
            /\ tx'[s].pc = "done" /\ tx'[s].ret = "False"
            /\ orders' = orders
            /\ balances' = balances
            /\ transactions' = transactions]_vars

\* the owner's cancel of a LIMIT order that is CANCELLED already returned False
GuardedCancelWitness ==
    \E s \in Sessions :
        /\ tx[s].pc = "done" /\ tx[s].ret = "False"
        /\ tx[s].target \in DOMAIN orders
        /\ orders[tx[s].target].user_id = tx[s].user
        /\ orders[tx[s].target].order_type = "LIMIT"
        /\ orders[tx[s].target].status = "CANCELLED"

\* C12: cancel_order by the owner of a NEW or PARTIALLY_EXECUTED order goes on
\* to return True, and its commit sets the status of that order to CANCELLED
\* and changes nothing else: not its filled, no other order, no balance, no
\* trade.
CancelOnlyStatus ==
    [][\A s \in Sessions :
         /\ (CancelBegins(s) /\ ~CancelMustMiss(tx'[s].target, tx'[s].user))
               => tx'[s].pc = "cancelling"
         /\ (tx[s].pc = "cancelling" /\ tx'[s].pc = "idle") =>
               /\ DOMAIN orders' = DOMAIN orders
               /\ \A id \in DOMAIN orders :
                    orders'[id] = IF id = tx[s].target
                                  THEN [orders[id] EXCEPT !.status = "CANCELLED"]
                                  ELSE orders[id]
               /\ balances' = balances
               /\ transactions' = transactions]_vars

\* a LIMIT order was cancelled after a part of it had been filled
CancelOnlyStatusWitness ==
    \E id \in DOMAIN orders :
        /\ orders[id].order_type = "LIMIT"
        /\ orders[id].status = "CANCELLED"
        /\ 0 < orders[id].filled /\ orders[id].filled < orders[id].qty

\* the amounts of the trades in which order id took part, as taker or maker
TradedWith(id) ==
    LET idx == {i \in 1..Len(transactions) :
                   transactions[i].taker = id \/ transactions[i].maker = id}
    IN SumOver([i \in idx |-> transactions[i].amount], idx)

SideOk(levels, ticker, direction, limit) ==
    LET open == {id \in DOMAIN orders :
                    /\ orders[id].order_type = "LIMIT"
                    /\ orders[id].ticker = ticker
                    /\ orders[id].direction = direction
                    /\ orders[id].status \in {"NEW", "PARTIALLY_EXECUTED"}}
        at(p) == {id \in open : orders[id].price = p}
        Total(p) == SumOver([id \in at(p) |-> Remaining(orders[id])], at(p))
        live == {p \in {orders[id].price : id \in open} : Total(p) > 0}
        Better(p1, p2) == IF direction = "BUY" THEN p1 > p2 ELSE p1 < p2
        shown == {levels[j].price : j \in 1..Len(levels)}
    IN /\ Len(levels) = Min(limit, Cardinality(live))
       /\ \A j \in 1..Len(levels) :
             levels[j].price \in live /\ levels[j].qty = Total(levels[j].price)
       /\ \A a, b \in 1..Len(levels) : a < b => Better(levels[a].price, levels[b].price)
       /\ \A p \in live \ shown : \A q \in shown : Better(q, p)

\* C16: for every ticker and limit, each side of get_orderbook has one level
\* for each price at which the open LIMIT orders of that side have a positive
\* total of qty - filled, with that total as qty, bids in strictly descending
\* and asks in strictly ascending price order, cut to the best min(limit,
\* number of levels) levels.
OrderbookSnapshot ==
    \A ticker \in Instruments, limit \in Limits :
        /\ SideOk(GetOrderbook(ticker, limit).bid_levels, ticker, "BUY", limit)
        /\ SideOk(GetOrderbook(ticker, limit).ask_levels, ticker, "SELL", limit)

\* two bid levels, the lower one the sum of two orders, and limit 1 shows
\* the higher one alone
OrderbookSnapshotWitness ==
    LET bids == GetOrderbook("AAPL", DefaultLimit).bid_levels IN
    /\ Len(bids) = 2
    /\ Cardinality({id \in BookOrders("AAPL", "BUY") : orders[id].price = bids[2].price}) = 2
    /\ bids[2].qty = 2
    /\ GetOrderbook("AAPL", 1).bid_levels = <<bids[1]>>

\* the amount of a balance row, 0 when there is no row
AmountOf(bal, k) == IF k \in DOMAIN bal THEN bal[k] ELSE 0

\* what one trade is to change in the row k
Settles(tr, k) ==
    (IF k = <<tr.buyer_id, tr.ticker>> THEN tr.amount ELSE 0)
    + (IF k = <<tr.buyer_id, "RUB">> THEN -(tr.amount * tr.price) ELSE 0)
    + (IF k = <<tr.seller_id, tr.ticker>> THEN -tr.amount ELSE 0)
    + (IF k = <<tr.seller_id, "RUB">> THEN tr.amount * tr.price ELSE 0)

\* C17: a trade between a buyer and a different seller adds amount to the
\* buyer's row of the ticker and takes amount*price from the buyer's RUB row,
\* takes amount from the seller's row of the ticker and adds amount*price to
\* the seller's RUB row, and changes no other row; at commit each changed row
\* gets its change added, a row that was missing is created with the change
\* as its amount, and no other row changes.
TradeSettlement ==
    [][\A s \in Sessions :
         /\ Len(tx'[s].added) > Len(tx[s].added) =>
               LET tr == tx'[s].added[Len(tx'[s].added)] IN
               tr.buyer_id # tr.seller_id =>
                   \A k \in Users \X Instruments :
                       AmountOf(tx'[s].deltas, k) - AmountOf(tx[s].deltas, k) = Settles(tr, k)
         /\ (tx[s].pc = "matching" /\ tx'[s].pc = "idle") =>
               \A k \in Users \X Instruments :
                   /\ k \in DOMAIN balances' <=>
                         (k \in DOMAIN balances \/ k \in DOMAIN tx[s].deltas)
                   /\ AmountOf(balances', k)
                         = AmountOf(balances, k) + AmountOf(tx[s].deltas, k)]_vars

\* a user with no RUB row sold to another user and has a RUB row now
TradeSettlementWitness ==
    \E i \in 1..Len(transactions) :
        LET tr == transactions[i] IN
        /\ tr.buyer_id # tr.seller_id
        /\ <<tr.seller_id, "RUB">> \notin DOMAIN InitBalances
        /\ <<tr.seller_id, "RUB">> \in DOMAIN balances
        /\ balances[<<tr.seller_id, "RUB">>] = tr.amount * tr.price

\* what the open LIMIT orders opposite to the incoming order have left, those
\* beyond the limit of a LIMIT order left out
Crossable(order) ==
    LET ids == {id \in DOMAIN orders :
                   /\ orders[id].order_type = "LIMIT"
                   /\ orders[id].ticker = order.ticker
                   /\ orders[id].direction # order.direction
                   /\ orders[id].status \in {"NEW", "PARTIALLY_EXECUTED"}
                   /\ order.order_type = "LIMIT" =>
                         IF order.direction = "BUY" THEN orders[id].price <= order.price
                                                    ELSE orders[id].price >= order.price}
    IN SumOver([id \in ids |-> Remaining(orders[id])], ids)

RECURSIVE SumAmounts(_)
SumAmounts(trades) ==
    IF trades = <<>> THEN 0 ELSE Head(trades).amount + SumAmounts(Tail(trades))

\* C20: with one request at a time, create_order leaves the new order with
\* filled = min(qty, L), L being what the open opposite LIMIT orders of the
\* ticker had left when it was submitted (for a LIMIT order those that cross
\* its price), and the amounts of its trades add up to that filled.
GreedyFill ==
    [][\A s \in Sessions :
         (tx[s].pc = "matching" /\ tx'[s].pc = "idle") =>
            LET o == orders'[tx[s].order.id] IN
            /\ o.filled = Min(o.qty, Crossable(tx[s].order))
            /\ SumAmounts(tx[s].added) = o.filled]_vars

\* a LIMIT order took all that crossed its price and was left short, while a
\* dearer order of the other side stayed untouched
GreedyFillWitness ==
    \E i \in 1..Len(transactions), id \in DOMAIN orders :
        LET taker == TakerOf(transactions[i]) IN
        /\ taker.order_type = "LIMIT" /\ taker.direction = "BUY"
        /\ taker.status = "PARTIALLY_EXECUTED"
        /\ orders[id].direction = "SELL" /\ orders[id].status = "NEW"
        /\ orders[id].price > taker.price
        /\ orders[id].timestamp < taker.timestamp

\* the committed store
Store == <<orders, balances, transactions>>

RECURSIVE SettlesAll(_, _)
\* what a sequence of trades is to change in the row k
SettlesAll(trades, k) ==
    IF trades = <<>> THEN 0 ELSE Settles(Head(trades), k) + SettlesAll(Tail(trades), k)

\* the step is the commit of the create_order of session s
CommitsCreate(s) == tx[s].pc = "matching" /\ tx'[s].pc = "idle"

\* the commit of session s installs the order, its trades, the fills of the
\* makers and the balance changes of every trade
InstallsAll(s) ==
    LET t == tx[s] IN
    /\ t.order.id \notin DOMAIN orders
    /\ t.order.id \in DOMAIN orders'
    /\ orders'[t.order.id].filled = SumAmounts(t.added)
    /\ transactions' = transactions \o t.added
    /\ \A j \in 1..Len(t.opposite_orders) :
          LET m == t.opposite_orders[j] IN
          (\E a \in 1..Len(t.added) : t.added[a].maker = m.id) =>
              orders'[m.id].filled = m.filled /\ orders'[m.id].status = m.status
    /\ \A k \in LockUsers \X Instruments :
          AmountOf(balances', k) - AmountOf(balances, k) = SettlesAll(t.added, k)

\* C13: the committed store changes only at the commit of a create_order,
\* and that one step installs the new order row, every trade of the
\* submission, the fills of its makers and the balance changes of all its
\* trades together; every other step of a submission, a failing one
\* included, leaves the committed store as it was.
AtomicSubmission ==
    [][\/ Store' = Store
       \/ \E s \in Sessions : CommitsCreate(s) /\ InstallsAll(s)]_vars

\* a submission with two trades was committed
AtomicSubmissionWitness ==
    \E a, b \in 1..Len(transactions) :
        /\ a # b
        /\ transactions[a].taker = transactions[b].taker
        /\ transactions[a].taker \in DOMAIN orders
        /\ orders[transactions[a].taker].filled = 2

\* C15: when the upsert of a create_order raises, at the first trade or after
\* earlier trades of the submission were applied, the raising step and the
\* closing of the session leave orders, trades and balances as committed, the
\* request never goes on to commit, and the closed session holds no order,
\* trade, fill or balance change any more.
FailureRollsBack ==
    [][\A s \in Sessions :
         /\ (tx[s].pc # "raised" /\ tx'[s].pc = "raised") => Store' = Store
         /\ tx[s].pc = "raised" =>
               /\ tx'[s].pc \in {"raised", "done"}
               /\ tx'[s].pc = "done" =>
                     /\ Store' = Store
                     /\ tx'[s] = [Idle EXCEPT !.pc = "done", !.ret = tx[s].ret]]_vars

\* the second trade of a submission failed after the upserts of its first
\* trade had gone through
FailureRollsBackWitness ==
    \E s \in Sessions :
        /\ tx[s].pc = "raised"
        /\ Len(tx[s].added) = 2
        /\ tx[s].order.id \notin DOMAIN orders

\* C18: no two create_order transactions ever wait for a balance row of each
\* other.
NoWaitsForCycle ==
    \A s, t \in Sessions : ~(s # t /\ WaitsFor(s, t) /\ WaitsFor(t, s))

\* the errors the claim wants retried
Conflicts == {"deadlock detected", "could not serialize access"}

\* C19: an upsert that fails with a deadlock or a serialization failure is
\* tried again until MaxRetries attempts are used, any other error is raised
\* at once, no more than MaxRetries attempts are made, and the lock is not
\* held once the error is raised or the changes are applied.
BoundedRetry ==
    [][\A s \in Sessions :
         /\ (tx[s].pc = "upserting" /\ tx'[s].pc = "raised" /\ tx'[s].ret \in Conflicts)
               => tx[s].attempt = MaxRetries - 1
         /\ (tx[s].pc = "upserting" /\ tx'[s].pc = "backoff")
               => (tx'[s].ret \in Conflicts /\ tx[s].attempt < MaxRetries - 1)
         /\ tx'[s].attempt < MaxRetries
         /\ tx'[s].pc \in {"raised", "matching", "done", "idle"}
               => ~tx'[s].balance_update_lock]_vars

\* the open LIMIT orders of one side of a ticker that have quantity left
RestingIds(ticker, direction) ==
    {id \in DOMAIN orders :
        /\ orders[id].order_type = "LIMIT"
        /\ orders[id].ticker = ticker
        /\ orders[id].direction = direction
        /\ orders[id].status \in {"NEW", "PARTIALLY_EXECUTED"}
        /\ Remaining(orders[id]) > 0}

\* C21: with one request at a time and an empty book at the start, every
\* open LIMIT BUY order with quantity left has a price strictly below that of
\* every open LIMIT SELL order of the ticker with quantity left, and the best
\* bid of get_orderbook is strictly below its best ask.
BookNotCrossed ==
    \A ticker \in Instruments :
        /\ \A b \in RestingIds(ticker, "BUY"), a \in RestingIds(ticker, "SELL") :
              orders[b].price < orders[a].price
        /\ LET book == GetOrderbook(ticker, DefaultLimit) IN
           (book.bid_levels # <<>> /\ book.ask_levels # <<>>) =>
               book.bid_levels[1].price < book.ask_levels[1].price

\* a bid that was filled in part rests below an ask that came after the trade
BookNotCrossedWitness ==
    \E b \in RestingIds("AAPL", "BUY"), a \in RestingIds("AAPL", "SELL") :
        /\ orders[b].status = "PARTIALLY_EXECUTED"
        /\ orders[a].timestamp > orders[b].timestamp
        /\ \E i \in 1..Len(transactions) : transactions[i].maker = b
====
